---- MODULE Spec2Model ----
(***************************************************************************)
(* ESP32 WiFi repeater with BLE control (src/Esp32.c++).                   *)
(*                                                                         *)
(* The state is the sketch's globals, the part of the radio and BLE stack  *)
(* state that the sketch commands (last power-save mode, last AP start,    *)
(* last station begin, link status, advertising), the clock millis(), and  *)
(* the frame of the handler that ran last: its name, the value written to  *)
(* the config characteristic and the log of driver calls it made.          *)
(* A handler runs to completion in one step; Return discards its frame.    *)
(* Time is counted in milliseconds and advances only by the delay() calls  *)
(* of the code.                                                            *)
(*                                                                         *)
(* Specifications:                                                         *)
(*   Spec                the configuration path: setup, the BLE callbacks, *)
(*                       configuration writes, the link                    *)
(*   SpecSupervisor      setup and loop() with no peer                     *)
(*   SpecSupervisorFair  the same under the scheduling of the Arduino core *)
(*   SpecStatus          setup, loop() and a peer that connects and leaves *)
(*   SpecTasks           the connection attempt of setup() poll by poll,   *)
(*                       with the BLE callbacks between two polls          *)
(***************************************************************************)
EXTENDS Integers, Sequences, FiniteSets, TLC

VARIABLES
    \* configuration store (lines 19-29)
    primarySSID, primaryPassword, apSSID, apPassword, apChannel, maxClients,
    powerSavingEnabled, powerSaveMode, listenInterval,
    \* status tracking (lines 36-37) and loop() statics (lines 222, 235)
    isPrimaryConnected, lastReconnectAttempt, lastBLEStatusTime, lastStatusTime,
    \* Bluetooth related (lines 43-45) and the advertising state of the stack
    pStatusCharacteristic, deviceConnected, oldDeviceConnected, advertising,
    \* radio driver: link status, last station begin, last AP start,
    \* last power-save mode and station listen interval commanded
    wifiStatus, wifiSta, wifiAP, wifiPs, wifiListen,
    \* millis(), position of setup(), number of config writes received
    now, setupPc, writes,
    \* the local connectionAttempts (line 314) of the connection attempt that
    \* setup() is inside, when the attempt is taken poll by poll; 0 otherwise
    connectionAttempts,
    \* frame of the handler that ran last
    op, doc, calls,
    \* history: a connection attempt has succeeded at some time
    everConnected,
    \* history: a tick of loop() has turned isPrimaryConnected true while a
    \* peer was connected, and no status has been pushed to that peer since
    pushOwed

store == <<primarySSID, primaryPassword, apSSID, apPassword, apChannel,
           maxClients, powerSavingEnabled, powerSaveMode, listenInterval>>
tracking == <<isPrimaryConnected, lastReconnectAttempt>>
statics == <<lastBLEStatusTime, lastStatusTime>>
ble == <<pStatusCharacteristic, deviceConnected, oldDeviceConnected, advertising>>
radio == <<wifiStatus, wifiSta, wifiAP, wifiPs, wifiListen>>
frame == <<op, doc, calls>>
vars == <<store, tracking, statics, ble, radio, now, setupPc, writes,
          connectionAttempts, frame, everConnected, pushOwed>>

----------------------------------------------------------------------------
\* Bounds of the model.

\* largest number of keys one written JSON object carries
MaxFields == 2
\* number of configuration writes in one run
MaxWrites == 2
\* loop() is not started after this clock value (ms)
MaxTime == 52000
\* the same, in the runs in which a peer connects and leaves while loop()
\* runs
MaxStatusTime == 31000

----------------------------------------------------------------------------
\* Program constants.

reconnectInterval == 30000
MaxConnectionAttempts == 20
PollDelay == 1000
DisconnectDelay == 100
SetupDelay == 100
LoopDelay == 100
BLEStatusPeriod == 5000
PrintStatusPeriod == 60000
MinChannel == 1
MaxChannel == 13
MaxClientsLimit == 10
MinListenInterval == 1
MaxListenInterval == 10

WIFI_PS_NONE == "WIFI_PS_NONE"
WIFI_PS_MIN_MODEM == "WIFI_PS_MIN_MODEM"
WIFI_PS_MAX_MODEM == "WIFI_PS_MAX_MODEM"
PowerSaveModes == {WIFI_PS_NONE, WIFI_PS_MIN_MODEM, WIFI_PS_MAX_MODEM}

----------------------------------------------------------------------------
\* JSON values of a written document, and ArduinoJson's conversions.

JAbsent == [t |-> "absent", i |-> 0, s |-> "", b |-> FALSE]
JInt(n) == [t |-> "int", i |-> n, s |-> "", b |-> FALSE]
JStr(x) == [t |-> "str", i |-> 0, s |-> x, b |-> FALSE]
JBool(x) == [t |-> "bool", i |-> 0, s |-> "", b |-> x]

\* doc.containsKey(k)
ContainsKey(v) == v.t # "absent"

\* doc[k].as<int>(): a number as it is, a boolean as 0/1, a string that is
\* no number as 0
AsInt(v) ==
    CASE v.t = "int" -> v.i
      [] v.t = "bool" -> (IF v.b THEN 1 ELSE 0)
      [] OTHER -> 0

\* doc[k].as<bool>(): a number is true when non-zero, a string is true
AsBool(v) ==
    CASE v.t = "bool" -> v.b
      [] v.t = "int" -> v.i # 0
      [] v.t = "str" -> TRUE
      [] OTHER -> FALSE

\* doc[k].as<String>(): a string as it is, any other value serialized
AsString(v) ==
    CASE v.t = "str" -> v.s
      [] v.t = "int" -> ToString(v.i)
      [] v.t = "bool" -> (IF v.b THEN "true" ELSE "false")
      [] OTHER -> "null"

----------------------------------------------------------------------------
\* Inputs: the values a BLE peer writes.

SsidInputs == {JStr("Shivam5G"), JStr("Foo")}
PassInputs == {JStr(""), JStr("bar")}
ApSsidInputs == {JStr("Shivam5G_Repeater"), JStr("Ext")}
ApPassInputs == {JStr(""), JStr("pw")}
ChannelInputs == {JInt(0), JInt(1), JInt(7), JInt(13), JInt(14), JStr("abc")}
MaxClientsInputs == {JInt(0), JInt(1), JInt(8), JInt(10), JInt(11)}
PowerSavingInputs == {JBool(TRUE), JBool(FALSE)}
PowerModeInputs == {JInt(-1), JInt(0), JInt(1), JInt(2), JInt(3)}
ListenInputs == {JInt(0), JInt(1), JInt(3), JInt(10), JInt(11)}

Keys == {"primarySSID", "primaryPass", "apSSID", "apPass", "channel",
         "maxClients", "powerSaving", "powerMode", "listenInterval"}

Opt(S) == S \cup {JAbsent}

AllDocs ==
    [primarySSID : Opt(SsidInputs), primaryPass : Opt(PassInputs),
     apSSID : Opt(ApSsidInputs), apPass : Opt(ApPassInputs),
     channel : Opt(ChannelInputs), maxClients : Opt(MaxClientsInputs),
     powerSaving : Opt(PowerSavingInputs), powerMode : Opt(PowerModeInputs),
     listenInterval : Opt(ListenInputs)]

Present(d) == {k \in Keys : ContainsKey(d[k])}

Docs == {d \in AllDocs : Cardinality(Present(d)) <= MaxFields}

EmptyDoc == [k \in Keys |-> JAbsent]

\* a written value: empty, text that is no JSON (fields: what the text
\* spells before the error), or a JSON object
Payloads ==
    {[kind |-> "json", fields |-> d] : d \in Docs}
      \cup {[kind |-> "malformed", fields |-> d] :
               d \in {e \in Docs : Cardinality(Present(e)) <= 1}}
      \cup {[kind |-> "empty", fields |-> EmptyDoc]}

NoPayload == [kind |-> "none", fields |-> EmptyDoc]

\* time from WiFi.begin() until the link is up (ms); beyond the polls: not
\* within this attempt
AssocDelays == {0, 2500, 25000}

----------------------------------------------------------------------------
\* parseConfig (lines 78-177): the validation of each field against the
\* store, evaluated on the store as it is before the update.

\* mutant: the error of deserializeJson is not looked at
ParseError_Ignored(p) == FALSE

\* deserializeJson reports an error (line 82)
ParseError(p) == p.kind = "malformed"

\* mutant: the lower bound of the channel is off by one
ChannelInRange_AcceptsZero(n) == n >= 0 /\ n <= MaxChannel

ChannelInRange(n) == n >= MinChannel /\ n <= MaxChannel
\* mutant: the upper bound of maxClients is missing
MaxClientsInRange_NoUpperBound(n) == n > 0

MaxClientsInRange(n) == n > 0 /\ n <= MaxClientsLimit
PowerModeInRange(n) == n >= 0 /\ n <= 2
ListenIntervalInRange(n) == n >= MinListenInterval /\ n <= MaxListenInterval

\* mutant: the SSID key alone is enough
StationChanged_SsidAlone(d) ==
    /\ ContainsKey(d.primarySSID)
    /\ \/ AsString(d.primarySSID) # primarySSID
       \/ AsString(d.primaryPass) # primaryPassword

\* lines 92-103
StationChanged(d) ==
    /\ ContainsKey(d.primarySSID) /\ ContainsKey(d.primaryPass)
    /\ \/ AsString(d.primarySSID) # primarySSID
       \/ AsString(d.primaryPass) # primaryPassword

\* lines 106-116
APChanged(d) ==
    /\ ContainsKey(d.apSSID) /\ ContainsKey(d.apPass)
    /\ \/ AsString(d.apSSID) # apSSID
       \/ AsString(d.apPass) # apPassword

\* lines 119-126
ChannelChanged(d) ==
    /\ ContainsKey(d.channel)
    /\ AsInt(d.channel) # apChannel
    /\ ChannelInRange(AsInt(d.channel))

\* lines 129-136
MaxClientsChanged(d) ==
    /\ ContainsKey(d.maxClients)
    /\ AsInt(d.maxClients) # maxClients
    /\ MaxClientsInRange(AsInt(d.maxClients))

\* lines 139-147
PowerSavingChanged(d) ==
    /\ ContainsKey(d.powerSaving)
    /\ AsBool(d.powerSaving) # powerSavingEnabled

\* lines 149-161: no comparison with the stored mode
PowerModeAccepted(d) ==
    /\ ContainsKey(d.powerMode)
    /\ PowerModeInRange(AsInt(d.powerMode))

\* lines 163-171
ListenIntervalChanged(d) ==
    /\ ContainsKey(d.listenInterval)
    /\ AsInt(d.listenInterval) # listenInterval
    /\ ListenIntervalInRange(AsInt(d.listenInterval))

\* the switch of lines 152-156
PowerModeOfInt(n) ==
    CASE n = 0 -> WIFI_PS_NONE
      [] n = 1 -> WIFI_PS_MIN_MODEM
      [] n = 2 -> WIFI_PS_MAX_MODEM

\* mutant: two cases of the status switch are exchanged
IntOfPowerMode_Swapped(m) ==
    CASE m = WIFI_PS_NONE -> 0
      [] m = WIFI_PS_MIN_MODEM -> 2
      [] m = WIFI_PS_MAX_MODEM -> 1

\* the switch of lines 386-390
IntOfPowerMode(m) ==
    CASE m = WIFI_PS_NONE -> 0
      [] m = WIFI_PS_MIN_MODEM -> 1
      [] m = WIFI_PS_MAX_MODEM -> 2

\* mutant: a change of the AP credentials also asks for a reconnect
WifiChanged_OnAPChange(d) == StationChanged(d) \/ APChanged(d)

\* the flag wifiChanged at line 174
WifiChanged(d) == StationChanged(d)

\* mutant: an out-of-range field clears the flag, as an early return would
ConfigChanged_AbortOnInvalid(d) ==
    /\ \/ StationChanged(d) \/ APChanged(d) \/ ChannelChanged(d)
       \/ MaxClientsChanged(d) \/ PowerSavingChanged(d) \/ PowerModeAccepted(d)
       \/ ListenIntervalChanged(d)
    /\ ContainsKey(d.channel) => ChannelInRange(AsInt(d.channel))
    /\ ContainsKey(d.maxClients) => MaxClientsInRange(AsInt(d.maxClients))
    /\ ContainsKey(d.powerMode) => PowerModeInRange(AsInt(d.powerMode))
    /\ ContainsKey(d.listenInterval) =>
          ListenIntervalInRange(AsInt(d.listenInterval))

\* the flag configChanged at line 174
ConfigChanged(d) ==
    \/ StationChanged(d) \/ APChanged(d) \/ ChannelChanged(d)
    \/ MaxClientsChanged(d) \/ PowerSavingChanged(d) \/ PowerModeAccepted(d)
    \/ ListenIntervalChanged(d)

\* the store as a record, and the store parseConfig leaves at line 173
Store ==
    [primarySSID |-> primarySSID, primaryPassword |-> primaryPassword,
     apSSID |-> apSSID, apPassword |-> apPassword, apChannel |-> apChannel,
     maxClients |-> maxClients, powerSavingEnabled |-> powerSavingEnabled,
     powerSaveMode |-> powerSaveMode, listenInterval |-> listenInterval]

ParsedStore(d) ==
    [primarySSID |->
        IF StationChanged(d) THEN AsString(d.primarySSID) ELSE primarySSID,
     primaryPassword |->
        IF StationChanged(d) THEN AsString(d.primaryPass) ELSE primaryPassword,
     apSSID |-> IF APChanged(d) THEN AsString(d.apSSID) ELSE apSSID,
     apPassword |-> IF APChanged(d) THEN AsString(d.apPass) ELSE apPassword,
     apChannel |-> IF ChannelChanged(d) THEN AsInt(d.channel) ELSE apChannel,
     maxClients |->
        IF MaxClientsChanged(d) THEN AsInt(d.maxClients) ELSE maxClients,
     powerSavingEnabled |->
        IF PowerSavingChanged(d) THEN AsBool(d.powerSaving)
        ELSE powerSavingEnabled,
     powerSaveMode |->
        IF PowerModeAccepted(d) THEN PowerModeOfInt(AsInt(d.powerMode))
        ELSE powerSaveMode,
     listenInterval |->
        IF ListenIntervalChanged(d) THEN AsInt(d.listenInterval)
        ELSE listenInterval]

----------------------------------------------------------------------------
\* Driver and BLE calls, as the entries of the call log.

\* applyPowerSavingSettings (lines 351-368) on store st
ApplyPowerSavingCalls(st) ==
    IF st.powerSavingEnabled
    THEN << [f |-> "esp_wifi_set_ps", mode |-> st.powerSaveMode],
            [f |-> "esp_wifi_set_config", listen_interval |-> st.listenInterval] >>
    ELSE << [f |-> "esp_wifi_set_ps", mode |-> WIFI_PS_NONE] >>

\* mutant: the stored mode is commanded also when power saving is disabled
PsAfterApply_FlagIgnored(st) == st.powerSaveMode

\* the radio's power-save mode and listen interval after it
PsAfterApply(st) ==
    IF st.powerSavingEnabled THEN st.powerSaveMode ELSE WIFI_PS_NONE
ListenAfterApply(st, old) ==
    IF st.powerSavingEnabled THEN st.listenInterval ELSE old

\* WiFi.softAPConfig and WiFi.softAP (lines 289-292, 339-340)
APArgs(st) ==
    [ssid |-> st.apSSID, pass |-> st.apPassword, channel |-> st.apChannel,
     maxClients |-> st.maxClients]
SoftAPCalls(st) ==
    << [f |-> "softAPConfig"], [f |-> "softAP", args |-> APArgs(st)] >>

\* mutant: the wait loop has no bound on the number of polls
RECURSIVE PollLoop_Unbounded(_, _)
PollLoop_Unbounded(n, a) ==
    IF a > n * PollDelay
    THEN PollLoop_Unbounded(n + 1, a)
    ELSE n

\* the while loop of lines 314-319 from connectionAttempts = n on: the
\* number of polls when the link comes up a ms after WiFi.begin()
RECURSIVE PollLoop(_, _)
PollLoop(n, a) ==
    IF a > n * PollDelay /\ n < MaxConnectionAttempts
    THEN PollLoop(n + 1, a)
    ELSE n

\* connectToPrimaryWiFi (lines 302-332) started at time t on store st
StaArgs(st) == [ssid |-> st.primarySSID, pass |-> st.primaryPassword]
Connect(st, t, a) ==
    LET polls == PollLoop(0, a)
        up == a <= polls * PollDelay
    IN [calls |-> << [f |-> "disconnect"], [f |-> "begin", args |-> StaArgs(st)] >>,
        polls |-> polls,
        connected |-> up,
        end |-> t + DisconnectDelay + polls * PollDelay]

\* the status document of lines 373-399 (the keys that come from the store,
\* the link status and the clock)
StatusPayload(st, link, t) ==
    [primaryConnected |-> link, primarySSID |-> st.primarySSID,
     apSSID |-> st.apSSID, powerSaving |-> st.powerSavingEnabled,
     powerMode |-> IntOfPowerMode(st.powerSaveMode),
     listenInterval |-> st.listenInterval, uptime |-> t \div 1000]

\* mutant: the test of deviceConnected at line 371 is missing
UpdateBLEStatusCalls_NoPeerTest(peer, st, link, t) ==
    << [f |-> "setValue", payload |-> StatusPayload(st, link, t)],
       [f |-> "notify"] >>

\* updateBLEStatus (lines 370-404)
UpdateBLEStatusCalls(peer, st, link, t) ==
    IF ~peer THEN << >>
    ELSE << [f |-> "setValue", payload |-> StatusPayload(st, link, t)],
            [f |-> "notify"] >>

----------------------------------------------------------------------------
\* The state after construction of the globals (lines 19-45).

NoSta == [ssid |-> "", pass |-> "", begun |-> FALSE]
NoAP == [ssid |-> "", pass |-> "", channel |-> 0, maxClients |-> 0]

Init ==
    /\ primarySSID = "Shivam5G" /\ primaryPassword = ""
    /\ apSSID = "Shivam5G_Repeater" /\ apPassword = ""
    /\ apChannel = 7 /\ maxClients = 8
    /\ powerSavingEnabled = TRUE /\ powerSaveMode = WIFI_PS_MIN_MODEM
    /\ listenInterval = 3
    /\ isPrimaryConnected = FALSE /\ lastReconnectAttempt = 0
    /\ lastBLEStatusTime = 0 /\ lastStatusTime = 0
    /\ pStatusCharacteristic = "NULL"
    /\ deviceConnected = FALSE /\ oldDeviceConnected = FALSE
    /\ advertising = FALSE
    /\ wifiStatus = FALSE /\ wifiSta = NoSta /\ wifiAP = NoAP
    /\ wifiPs = WIFI_PS_NONE /\ wifiListen = 0
    /\ now = 0 /\ setupPc = "start" /\ writes = 0
    /\ connectionAttempts = 0
    /\ op = "none" /\ doc = NoPayload /\ calls = << >>
    /\ everConnected = FALSE /\ pushOwed = FALSE

Idle == op = "none"

\* the store variables take the values of record st
SetStore(st) ==
    /\ primarySSID' = st.primarySSID /\ primaryPassword' = st.primaryPassword
    /\ apSSID' = st.apSSID /\ apPassword' = st.apPassword
    /\ apChannel' = st.apChannel /\ maxClients' = st.maxClients
    /\ powerSavingEnabled' = st.powerSavingEnabled
    /\ powerSaveMode' = st.powerSaveMode
    /\ listenInterval' = st.listenInterval

----------------------------------------------------------------------------
\* mutant: advertising is started before the status characteristic is
\* created
SetupBLE_AdvertisingFirst ==
    /\ Idle /\ setupPc = "start"
    /\ now' = now + SetupDelay
    /\ advertising' = TRUE
    /\ setupPc' = "service"
    /\ UNCHANGED <<store, tracking, statics, pStatusCharacteristic,
                   deviceConnected, oldDeviceConnected, radio, writes,
                   connectionAttempts, frame, everConnected, pushOwed>>

\* setup(): lines 182-188, Serial, delay(100) and setupBLE up to the start
\* of the service (lines 245-271): the characteristics are created
SetupBLE ==
    /\ Idle /\ setupPc = "start"
    /\ now' = now + SetupDelay
    /\ pStatusCharacteristic' = "created"
    /\ setupPc' = "service"
    /\ UNCHANGED <<store, tracking, statics, deviceConnected,
                   oldDeviceConnected, advertising, radio, writes,
                   connectionAttempts, frame, everConnected, pushOwed>>

\* setupBLE, line 274: advertising is started; from here on a peer can
\* connect
StartAdvertising ==
    /\ Idle /\ setupPc = "service"
    /\ advertising' = TRUE
    /\ setupPc' = "ble"
    /\ UNCHANGED <<store, tracking, statics, pStatusCharacteristic,
                   deviceConnected, oldDeviceConnected, radio, now, writes,
                   connectionAttempts, frame, everConnected, pushOwed>>

\* setup(): lines 191-200, WiFi.mode, setupAccessPoint, connectToPrimaryWiFi
\* and applyPowerSavingSettings
SetupWiFi(a) ==
    /\ Idle /\ setupPc = "ble"
    /\ LET c == Connect(Store, now, a)
       IN /\ wifiAP' = APArgs(Store)
          /\ wifiSta' = [ssid |-> primarySSID, pass |-> primaryPassword,
                         begun |-> TRUE]
          /\ wifiStatus' = c.connected
          /\ isPrimaryConnected' = c.connected
          /\ lastReconnectAttempt' = c.end
          /\ now' = c.end
          /\ wifiPs' = PsAfterApply(Store)
          /\ wifiListen' = ListenAfterApply(Store, wifiListen)
          /\ calls' = SoftAPCalls(Store) \o c.calls \o ApplyPowerSavingCalls(Store)
          /\ everConnected' = c.connected
    /\ op' = "setup" /\ doc' = NoPayload
    /\ setupPc' = "done"
    /\ UNCHANGED <<store, statics, ble, writes, connectionAttempts, pushOwed>>

\* setup() from line 191 on, taken poll by poll: nothing in the sketch keeps
\* the BLE stack from running a callback while setup() waits in delay().
\* Lines 191-197 and 303-314, up to the first test of the wait loop
SetupConnectBegin ==
    /\ Idle /\ setupPc = "ble"
    /\ wifiAP' = APArgs(Store)
    /\ wifiSta' = [ssid |-> primarySSID, pass |-> primaryPassword,
                   begun |-> TRUE]
    /\ wifiStatus' = FALSE
    /\ now' = now + DisconnectDelay
    /\ connectionAttempts' = 0
    /\ setupPc' = "connect"
    /\ UNCHANGED <<store, tracking, statics, ble, wifiPs, wifiListen, writes,
                   frame, everConnected, pushOwed>>

\* one round of the wait loop (lines 315-319)
SetupConnectPoll ==
    /\ Idle /\ setupPc = "connect"
    /\ ~wifiStatus /\ connectionAttempts < MaxConnectionAttempts
    /\ now' = now + PollDelay
    /\ connectionAttempts' = connectionAttempts + 1
    /\ UNCHANGED <<store, tracking, statics, ble, radio, setupPc, writes,
                   frame, everConnected, pushOwed>>

\* the wait loop is left: lines 322-331, then line 200
SetupConnectEnd ==
    /\ Idle /\ setupPc = "connect"
    /\ wifiStatus \/ connectionAttempts >= MaxConnectionAttempts
    /\ isPrimaryConnected' = wifiStatus
    /\ lastReconnectAttempt' = now
    /\ everConnected' = (everConnected \/ wifiStatus)
    /\ wifiPs' = PsAfterApply(Store)
    /\ wifiListen' = ListenAfterApply(Store, wifiListen)
    /\ connectionAttempts' = 0
    /\ setupPc' = "done"
    /\ UNCHANGED <<store, statics, ble, wifiStatus, wifiSta, wifiAP, now,
                   writes, frame, pushOwed>>

----------------------------------------------------------------------------
\* ServerCallbacks::onConnect (lines 54-58); the stack stops advertising
\* when a peer connects
OnConnect ==
    /\ Idle /\ advertising /\ ~deviceConnected
    /\ deviceConnected' = TRUE
    /\ advertising' = FALSE
    /\ op' = "onConnect" /\ doc' = NoPayload
    /\ calls' = UpdateBLEStatusCalls(TRUE, Store, wifiStatus, now)
    /\ pushOwed' = FALSE
    /\ UNCHANGED <<store, tracking, statics, pStatusCharacteristic,
                   oldDeviceConnected, radio, now, setupPc, writes,
                   connectionAttempts, everConnected>>

\* mutant: advertising is not started again
OnDisconnect_NoAdvertising ==
    /\ Idle /\ deviceConnected
    /\ deviceConnected' = FALSE
    /\ op' = "onDisconnect" /\ doc' = NoPayload /\ calls' = << >>
    /\ pushOwed' = FALSE
    /\ UNCHANGED <<store, tracking, statics, pStatusCharacteristic,
                   oldDeviceConnected, advertising, radio, now, setupPc,
                   writes, connectionAttempts, everConnected>>

\* ServerCallbacks::onDisconnect (lines 60-65)
OnDisconnect ==
    /\ Idle /\ deviceConnected
    /\ deviceConnected' = FALSE
    /\ advertising' = TRUE
    /\ op' = "onDisconnect" /\ doc' = NoPayload /\ calls' = << >>
    /\ pushOwed' = FALSE
    /\ UNCHANGED <<store, tracking, statics, pStatusCharacteristic,
                   oldDeviceConnected, radio, now, setupPc, writes,
                   connectionAttempts, everConnected>>

\* mutant: the station reconnect runs before the access point is restarted
ApplySettingsCalls_ReconnectFirst(st, reconnectWifi, connectCalls, statusCalls) ==
    ApplyPowerSavingCalls(st)
      \o (IF reconnectWifi THEN connectCalls ELSE << >>)
      \o SoftAPCalls(st) \o statusCalls

\* mutant: the status is pushed only when no reconnect ran
ApplySettingsCalls_StatusSkipped(st, reconnectWifi, connectCalls, statusCalls) ==
    ApplyPowerSavingCalls(st) \o SoftAPCalls(st)
      \o (IF reconnectWifi THEN connectCalls ELSE statusCalls)

\* the calls of applySettings (lines 334-349) in their order: connectCalls
\* are those of connectToPrimaryWiFi, statusCalls those of updateBLEStatus
ApplySettingsCalls(st, reconnectWifi, connectCalls, statusCalls) ==
    ApplyPowerSavingCalls(st) \o SoftAPCalls(st)
      \o (IF reconnectWifi THEN connectCalls ELSE << >>)
      \o statusCalls

\* applySettings (lines 334-349) after parseConfig left store st
ApplySettings(st, reconnectWifi, a) ==
    LET c == Connect(st, now, a)
        link == IF reconnectWifi THEN c.connected ELSE wifiStatus
        t == IF reconnectWifi THEN c.end ELSE now
    IN /\ wifiPs' = PsAfterApply(st)
       /\ wifiListen' = ListenAfterApply(st, wifiListen)
       /\ wifiAP' = APArgs(st)
       /\ wifiSta' = IF reconnectWifi
                     THEN [ssid |-> st.primarySSID, pass |-> st.primaryPassword,
                           begun |-> TRUE]
                     ELSE wifiSta
       /\ wifiStatus' = link
       /\ isPrimaryConnected' = IF reconnectWifi THEN c.connected
                                ELSE isPrimaryConnected
       /\ lastReconnectAttempt' = IF reconnectWifi THEN c.end
                                  ELSE lastReconnectAttempt
       /\ now' = t
       /\ everConnected' = (everConnected \/ (reconnectWifi /\ c.connected))
       /\ calls' = ApplySettingsCalls(st, reconnectWifi, c.calls,
                        UpdateBLEStatusCalls(deviceConnected, st, link, t))

\* ConfigCallbacks::onWrite and parseConfig (lines 69-177) on written value p
OnWrite(p, a) ==
    /\ Idle /\ deviceConnected /\ writes < MaxWrites
    /\ writes' = writes + 1
    /\ op' = "onWrite" /\ doc' = p
    /\ IF p.kind = "empty" \/ ParseError(p) \/ ~ConfigChanged(p.fields)
       THEN /\ SetStore(IF p.kind = "empty" \/ ParseError(p)
                        THEN Store ELSE ParsedStore(p.fields))
            /\ calls' = << >>
            /\ UNCHANGED <<tracking, radio, now, everConnected>>
       ELSE /\ SetStore(ParsedStore(p.fields))
            /\ ApplySettings(ParsedStore(p.fields), WifiChanged(p.fields), a)
    /\ pushOwed' = (pushOwed /\ calls' = << >>)
    /\ UNCHANGED <<statics, ble, setupPc, connectionAttempts>>

\* mutant: a lost link is reconnected at once, whatever the interval
AttemptDue_Immediately == ~wifiStatus

\* mutant: after an attempt that failed, no tick starts another
AttemptDue_OnlyAfterLoss ==
    /\ ~wifiStatus
    /\ isPrimaryConnected
    /\ now - lastReconnectAttempt > reconnectInterval

\* the conditions of lines 205-206: loop() starts a connection attempt
AttemptDue ==
    /\ ~wifiStatus
    /\ \/ ~isPrimaryConnected
       \/ now - lastReconnectAttempt > reconnectInterval

\* loop() (lines 203-243): one iteration, the blocking connection attempt
\* included
Loop(a) ==
    /\ Idle /\ setupPc = "done" /\ now <= MaxTime
    /\ LET attempt == AttemptDue
           justConnected == wifiStatus /\ ~isPrimaryConnected
           c == Connect(Store, now, a)
           t == IF attempt THEN c.end ELSE now
           link == IF attempt THEN c.connected ELSE wifiStatus
           periodic == deviceConnected /\ t - lastBLEStatusTime > BLEStatusPeriod
       IN /\ wifiStatus' = link
          /\ wifiSta' = IF attempt
                        THEN [ssid |-> primarySSID, pass |-> primaryPassword,
                              begun |-> TRUE]
                        ELSE wifiSta
          /\ isPrimaryConnected' =
                IF attempt THEN c.connected
                ELSE IF justConnected THEN TRUE ELSE isPrimaryConnected
          /\ lastReconnectAttempt' =
                IF attempt THEN c.end ELSE lastReconnectAttempt
          /\ everConnected' = (everConnected \/ (attempt /\ c.connected))
          /\ lastBLEStatusTime' = IF periodic THEN t ELSE lastBLEStatusTime
          /\ lastStatusTime' =
                IF t - lastStatusTime > PrintStatusPeriod THEN t
                ELSE lastStatusTime
          /\ calls' =
                (IF attempt THEN c.calls ELSE << >>)
                  \o (IF justConnected
                      THEN UpdateBLEStatusCalls(deviceConnected, Store, link, t)
                      ELSE << >>)
                  \o (IF periodic
                      THEN UpdateBLEStatusCalls(deviceConnected, Store, link, t)
                      ELSE << >>)
          /\ now' = t + LoopDelay
          \* line 207 runs before every attempt of loop(): a successful one
          \* turns isPrimaryConnected from false to true
          /\ pushOwed' =
                IF justConnected \/ periodic THEN FALSE
                ELSE IF attempt /\ c.connected /\ deviceConnected THEN TRUE
                ELSE pushOwed
    /\ oldDeviceConnected' = deviceConnected
    /\ op' = "loop" /\ doc' = NoPayload
    /\ UNCHANGED <<store, pStatusCharacteristic, deviceConnected, advertising,
                   wifiAP, wifiPs, wifiListen, setupPc, writes,
                   connectionAttempts>>

\* an iteration that starts no attempt is the same step for every delay
LoopInputs == IF AttemptDue THEN AssocDelays ELSE {0}

\* the handler returns: its frame is gone
Return ==
    /\ ~Idle
    /\ op' = "none" /\ doc' = NoPayload /\ calls' = << >>
    /\ UNCHANGED <<store, tracking, statics, ble, radio, now, setupPc, writes,
                   connectionAttempts, everConnected, pushOwed>>

\* the upstream network becomes reachable and the started station joins it
LinkUp ==
    /\ Idle /\ wifiSta.begun /\ ~wifiStatus
    /\ wifiStatus' = TRUE
    /\ UNCHANGED <<store, tracking, statics, ble, wifiSta, wifiAP, wifiPs,
                   wifiListen, now, setupPc, writes, connectionAttempts,
                   frame, everConnected, pushOwed>>

\* the station loses the upstream network
LinkDown ==
    /\ Idle /\ wifiStatus
    /\ wifiStatus' = FALSE
    /\ UNCHANGED <<store, tracking, statics, ble, wifiSta, wifiAP, wifiPs,
                   wifiListen, now, setupPc, writes, connectionAttempts,
                   frame, everConnected, pushOwed>>

\* a written value that reconnects makes use of the association delay; one
\* that does not is the same step for every delay
WriteInputs(p) ==
    IF p.kind = "json" /\ WifiChanged(p.fields) THEN AssocDelays ELSE {0}

Next ==
    \/ SetupBLE
    \/ StartAdvertising
    \/ \E a \in AssocDelays : SetupWiFi(a)
    \/ OnConnect
    \/ OnDisconnect
    \/ \E p \in Payloads : \E a \in WriteInputs(p) : OnWrite(p, a)
    \/ Return
    \/ LinkUp
    \/ LinkDown

\* the configuration path: setup, the BLE callbacks and the link
Spec == Init /\ [][Next]_vars

\* the connectivity supervisor: setup, the control loop, the link and the
\* peer, with the store left as constructed
NextSupervisor ==
    \/ SetupBLE
    \/ StartAdvertising
    \/ \E a \in AssocDelays : SetupWiFi(a)
    \/ \E a \in LoopInputs : Loop(a)
    \/ Return
    \/ LinkUp
    \/ LinkDown

SpecSupervisor == Init /\ [][NextSupervisor]_vars

\* the same, with the scheduling of the Arduino core: setup() runs, then
\* loop() is called again and again, and every handler returns; the link is
\* left to the environment
SpecSupervisorFair ==
    /\ SpecSupervisor
    /\ WF_vars(SetupBLE)
    /\ WF_vars(StartAdvertising)
    /\ WF_vars(\E a \in AssocDelays : SetupWiFi(a))
    /\ WF_vars(\E a \in LoopInputs : Loop(a))
    /\ WF_vars(Return)

\* the BLE stack's task beside setup(): the connection attempt of setup()
\* poll by poll, the callbacks between two polls, and one configuration
\* write; a callback runs as one step
NextTasks ==
    \/ SetupBLE
    \/ StartAdvertising
    \/ SetupConnectBegin
    \/ SetupConnectPoll
    \/ SetupConnectEnd
    \/ OnConnect
    \/ OnDisconnect
    \/ \E p \in Payloads : \E a \in WriteInputs(p) : (writes = 0 /\ OnWrite(p, a))
    \/ Return
    \/ LinkUp
    \/ LinkDown

SpecTasks == Init /\ [][NextTasks]_vars

\* the status reporter: setup, the control loop, the link, and a peer that
\* connects and leaves at any time and writes nothing
NextStatus ==
    \/ SetupBLE
    \/ StartAdvertising
    \/ \E a \in AssocDelays : SetupWiFi(a)
    \/ OnConnect
    \/ OnDisconnect
    \/ \E a \in LoopInputs : (now <= MaxStatusTime /\ Loop(a))
    \/ Return
    \/ LinkUp
    \/ LinkDown

SpecStatus == Init /\ [][NextStatus]_vars

----------------------------------------------------------------------------
\* Reading an update as the properties read it, written against the bounds
\* of the data model and not against the operators of parseConfig.

\* A configuration write has just run on a JSON object
WriteDone == op = "onWrite" /\ doc.kind = "json"

\* The step is a configuration write
WriteStep == Idle /\ op' = "onWrite"

\* The fields of an update: a credential pair is one field, carried when
\* both of its keys are
Fields == {"station", "ap", "channel", "maxClients", "powerSaving",
           "powerMode", "listenInterval"}

FieldPresent(d, f) ==
    CASE f = "station" ->
            ContainsKey(d.primarySSID) /\ ContainsKey(d.primaryPass)
      [] f = "ap" -> ContainsKey(d.apSSID) /\ ContainsKey(d.apPass)
      [] OTHER -> ContainsKey(d[f])

FieldValid(d, f) ==
    CASE f = "channel" -> AsInt(d.channel) \in 1..13
      [] f = "maxClients" -> AsInt(d.maxClients) \in 1..10
      [] f = "powerMode" -> AsInt(d.powerMode) \in 0..2
      [] f = "listenInterval" -> AsInt(d.listenInterval) \in 1..10
      [] OTHER -> TRUE

\* Store st holds the value the update carries for field f
FieldHeld(st, d, f) ==
    CASE f = "station" ->
            /\ st.primarySSID = d.primarySSID.s
            /\ st.primaryPassword = d.primaryPass.s
      [] f = "ap" ->
            st.apSSID = d.apSSID.s /\ st.apPassword = d.apPass.s
      [] f = "channel" -> st.apChannel = d.channel.i
      [] f = "maxClients" -> st.maxClients = d.maxClients.i
      [] f = "powerSaving" -> st.powerSavingEnabled = d.powerSaving.b
      [] f = "powerMode" ->
            st.powerSaveMode =
              (CASE d.powerMode.i = 0 -> WIFI_PS_NONE
                 [] d.powerMode.i = 1 -> WIFI_PS_MIN_MODEM
                 [] d.powerMode.i = 2 -> WIFI_PS_MAX_MODEM
                 [] OTHER -> "invalid")
      [] f = "listenInterval" -> st.listenInterval = d.listenInterval.i

PresentFields(d) == {f \in Fields : FieldPresent(d, f)}
InvalidFields(d) == {f \in PresentFields(d) : ~FieldValid(d, f)}
ValidFields(d) == {f \in PresentFields(d) : FieldValid(d, f)}

\* The names of the calls of a log, in order
Kinds(log) == [i \in DOMAIN log |-> log[i].f]
Count(log, name) == Cardinality({i \in DOMAIN log : log[i].f = name})
Made(log, name) == \E i \in DOMAIN log : log[i].f = name

----------------------------------------------------------------------------
\* C1: after any sequence of configuration writes the store keeps
\* apChannel in 1..13, maxClients in 1..10, listenInterval in 1..10 and
\* powerSaveMode one of the three modes.
C1_StoreInRange ==
    /\ apChannel \in 1..13
    /\ maxClients \in 1..10
    /\ listenInterval \in 1..10
    /\ powerSaveMode \in {WIFI_PS_NONE, WIFI_PS_MIN_MODEM, WIFI_PS_MAX_MODEM}

\* A write carrying channel 0 and listenInterval 11 has run on a store
\* that an earlier write had moved to the bounds 13 and 10
C1_Witness ==
    /\ WriteDone /\ writes = 2
    /\ doc.fields.channel = JInt(0) /\ doc.fields.listenInterval = JInt(11)
    /\ apChannel = 13 /\ listenInterval = 10

\* C2: an update with exactly one field failing validation and other valid
\* fields that differ from the store leaves every one of those valid fields
\* at its new value and still performs the side effects of applySettings.
C2_PartialAcceptance ==
    [][ (/\ WriteStep /\ doc'.kind = "json"
         /\ Cardinality(InvalidFields(doc'.fields)) = 1
         /\ \E f \in ValidFields(doc'.fields) : ~FieldHeld(Store, doc'.fields, f))
        => /\ \A f \in ValidFields(doc'.fields) :
                FieldHeld(Store', doc'.fields, f)
           /\ Made(calls', "esp_wifi_set_ps") /\ Made(calls', "softAP") ]_vars

\* A write with channel 14 and maxClients 10 has run: maxClients is 10 and
\* the access point was restarted
C2_Witness ==
    /\ WriteDone
    /\ doc.fields.channel = JInt(14) /\ doc.fields.maxClients = JInt(10)
    /\ maxClients = 10 /\ apChannel = 7
    /\ Made(calls, "softAP")

\* The keys of an update one by one, a lone key of a credential pair
\* included
KeyValid(d, k) ==
    CASE k = "channel" -> AsInt(d.channel) \in 1..13
      [] k = "maxClients" -> AsInt(d.maxClients) \in 1..10
      [] k = "powerMode" -> AsInt(d.powerMode) \in 0..2
      [] k = "listenInterval" -> AsInt(d.listenInterval) \in 1..10
      [] OTHER -> TRUE

KeyHeld(st, d, k) ==
    CASE k = "primarySSID" -> st.primarySSID = d.primarySSID.s
      [] k = "primaryPass" -> st.primaryPassword = d.primaryPass.s
      [] k = "apSSID" -> st.apSSID = d.apSSID.s
      [] k = "apPass" -> st.apPassword = d.apPass.s
      [] OTHER -> FieldHeld(st, d, k)

AllKeysValid(d) == \A k \in Present(d) : KeyValid(d, k)

\* The update carries a station credential pair that differs from store st
ChangesStation(st, d) ==
    /\ ContainsKey(d.primarySSID) /\ ContainsKey(d.primaryPass)
    /\ <<d.primarySSID.s, d.primaryPass.s>> # <<st.primarySSID, st.primaryPassword>>

\* A status payload reports the values of store st
PayloadReports(pl, st) ==
    /\ pl.primarySSID = st.primarySSID
    /\ pl.apSSID = st.apSSID
    /\ pl.powerSaving = st.powerSavingEnabled
    /\ pl.listenInterval = st.listenInterval
    /\ pl.powerMode \in 0..2
    /\ st.powerSaveMode =
         (CASE pl.powerMode = 0 -> WIFI_PS_NONE
            [] pl.powerMode = 1 -> WIFI_PS_MIN_MODEM
            [] pl.powerMode = 2 -> WIFI_PS_MAX_MODEM)

\* C3: an update whose present fields are all valid and all equal to the
\* stored values (the second application of a valid update) is a no-op:
\* the store is unchanged and no radio call and no status push is made,
\* for every field, powerMode included.
C3_Idempotent ==
    [][ (/\ WriteStep /\ doc'.kind = "json"
         /\ AllKeysValid(doc'.fields)
         /\ \A k \in Present(doc'.fields) : KeyHeld(Store, doc'.fields, k))
        => Store' = Store /\ calls' = << >> ]_vars

\* C4 as claimed: after an update in which every present key is valid,
\* every present key's value is held in the store, also when only one key
\* of a credential pair is carried, and the status payload reports the
\* store.
C4_EveryKeyApplied ==
    /\ (WriteDone /\ AllKeysValid(doc.fields))
         => \A k \in Present(doc.fields) : KeyHeld(Store, doc.fields, k)
    /\ \A i \in DOMAIN calls :
         calls[i].f = "setValue" => PayloadReports(calls[i].payload, Store)

\* C4 as amended: after an update in which every present field is valid,
\* every present field's value is held in the store, where a credential
\* pair is present only when both of its keys are carried; and every status
\* payload built while a peer is connected reports the store's values of
\* primarySSID, apSSID, powerSaving, powerMode and listenInterval.
C4_ValidFieldsApplied ==
    /\ (WriteDone /\ AllKeysValid(doc.fields))
         => \A f \in PresentFields(doc.fields) : FieldHeld(Store, doc.fields, f)
    /\ \A i \in DOMAIN calls :
         calls[i].f = "setValue" => PayloadReports(calls[i].payload, Store)

\* A write of powerMode 2 and listenInterval 10 has run and the status it
\* pushed reports both
C4_Witness ==
    /\ WriteDone
    /\ doc.fields.powerMode = JInt(2) /\ doc.fields.listenInterval = JInt(10)
    /\ powerSaveMode = WIFI_PS_MAX_MODEM /\ listenInterval = 10
    /\ \E i \in DOMAIN calls :
         /\ calls[i].f = "setValue"
         /\ calls[i].payload.powerMode = 2
         /\ calls[i].payload.listenInterval = 10

\* C5: an update that changes the station credentials causes, within that
\* write, exactly one AP reconfiguration (softAPConfig, softAP) and after it
\* exactly one reconnect (disconnect, then begin with the new credentials).
C5_ReconnectAfterAP ==
    [][ (WriteStep /\ doc'.kind = "json" /\ ChangesStation(Store, doc'.fields))
        => /\ Count(calls', "softAPConfig") = 1 /\ Count(calls', "softAP") = 1
           /\ Count(calls', "disconnect") = 1 /\ Count(calls', "begin") = 1
           /\ \E i, j, k, l \in DOMAIN calls' :
                /\ i < j /\ j < k /\ k < l
                /\ calls'[i].f = "softAPConfig" /\ calls'[j].f = "softAP"
                /\ calls'[k].f = "disconnect" /\ calls'[l].f = "begin"
                /\ calls'[l].args.ssid = doc'.fields.primarySSID.s
                /\ calls'[l].args.pass = doc'.fields.primaryPass.s ]_vars

\* A write that changed the station password has run and began the
\* station with it
C5_Witness ==
    /\ WriteDone
    /\ doc.fields.primarySSID = JStr("Shivam5G")
    /\ doc.fields.primaryPass = JStr("bar")
    /\ \E i \in DOMAIN calls :
         calls[i].f = "begin" /\ calls[i].args.pass = "bar"

\* C6: a write that does not change the station credentials makes no
\* station disconnect and no station connect call and leaves primarySSID,
\* primaryPassword, isPrimaryConnected and lastReconnectAttempt unchanged.
C6_NoReconnect ==
    [][ (WriteStep /\ ~(doc'.kind = "json" /\ ChangesStation(Store, doc'.fields)))
        => /\ ~Made(calls', "disconnect") /\ ~Made(calls', "begin")
           /\ primarySSID' = primarySSID
           /\ primaryPassword' = primaryPassword
           /\ isPrimaryConnected' = isPrimaryConnected
           /\ lastReconnectAttempt' = lastReconnectAttempt ]_vars

\* A write that changed the AP credentials and carried no station
\* credentials has run while the station was connected
C6_Witness ==
    /\ WriteDone
    /\ doc.fields.apSSID = JStr("Ext") /\ doc.fields.apPass = JStr("pw")
    /\ apSSID = "Ext" /\ apPassword = "pw"
    /\ Made(calls, "softAP")
    /\ isPrimaryConnected

\* C7: while the station link is down, a tick of loop() starts a connection
\* attempt only if no attempt has ever succeeded or at least 30000 ms have
\* passed since lastReconnectAttempt.
C7_Backoff ==
    [][ (Idle /\ op' = "loop" /\ Made(calls', "begin"))
        => \/ ~everConnected
           \/ now - lastReconnectAttempt >= 30000 ]_vars

\* C8: a write that changes at least one store field makes these calls and
\* no others, in this order: the power-save policy of the updated store,
\* the AP configuration and start with the updated store's values, the
\* station disconnect and begin if and only if the station credentials
\* changed, and the status push last.
C8_SideEffectOrder ==
    [][ (WriteStep /\ Store' # Store)
        => LET st == Store'
               changed == <<st.primarySSID, st.primaryPassword>>
                            # <<primarySSID, primaryPassword>>
               ps == IF st.powerSavingEnabled
                     THEN <<"esp_wifi_set_ps", "esp_wifi_set_config">>
                     ELSE <<"esp_wifi_set_ps">>
               n == Len(ps)
           IN /\ Kinds(calls') =
                   ps \o <<"softAPConfig", "softAP">>
                      \o (IF changed THEN <<"disconnect", "begin">> ELSE << >>)
                      \o <<"setValue", "notify">>
              /\ calls'[1].mode =
                   (IF st.powerSavingEnabled THEN st.powerSaveMode
                    ELSE WIFI_PS_NONE)
              /\ st.powerSavingEnabled =>
                   calls'[2].listen_interval = st.listenInterval
              /\ calls'[n + 2].args =
                   [ssid |-> st.apSSID, pass |-> st.apPassword,
                    channel |-> st.apChannel, maxClients |-> st.maxClients]
              /\ changed =>
                   calls'[n + 4].args =
                     [ssid |-> st.primarySSID, pass |-> st.primaryPassword]
              /\ PayloadReports(calls'[Len(calls') - 1].payload, st) ]_vars

\* A write that changed the station credentials and disabled power saving
\* has run: seven calls from the power-save mode to the notification
C8_Witness ==
    /\ WriteDone
    /\ primarySSID = "Foo" /\ ~powerSavingEnabled
    /\ Kinds(calls) = <<"esp_wifi_set_ps", "softAPConfig", "softAP",
                        "disconnect", "begin", "setValue", "notify">>

\* C9: a channel outside 1..13 leaves apChannel unchanged and a maxClients
\* outside 1..10 leaves maxClients unchanged, whatever else the update
\* carries; an update whose only key is such a value leaves the whole store
\* unchanged and makes no call.
C9_OutOfRangeRejected ==
    [][ (WriteStep /\ doc'.kind = "json")
        => LET d == doc'.fields
               badChannel ==
                   ContainsKey(d.channel) /\ AsInt(d.channel) \notin 1..13
               badClients ==
                   ContainsKey(d.maxClients) /\ AsInt(d.maxClients) \notin 1..10
           IN /\ badChannel => apChannel' = apChannel
              /\ badClients => maxClients' = maxClients
              /\ (\/ badChannel /\ Present(d) = {"channel"}
                  \/ badClients /\ Present(d) = {"maxClients"})
                   => Store' = Store /\ calls' = << >> /\ UNCHANGED radio ]_vars

\* A write of maxClients 11 and listenInterval 10 has run on a store whose
\* maxClients an earlier write had set to 10: the listen interval was
\* applied, maxClients was not
C9_Witness ==
    /\ WriteDone /\ writes = 2
    /\ doc.fields.maxClients = JInt(11) /\ doc.fields.listenInterval = JInt(10)
    /\ maxClients = 10 /\ listenInterval = 10
    /\ Made(calls, "softAP")

\* C10: a written value that is no parseable JSON changes no store field
\* and makes no radio call and no status push.
C10_MalformedRejected ==
    [][ (WriteStep /\ doc'.kind = "malformed")
        => /\ Store' = Store
           /\ calls' = << >>
           /\ UNCHANGED <<tracking, radio>> ]_vars

\* A write of a text that spells a channel and then breaks off has run
C10_Witness ==
    /\ op = "onWrite" /\ doc.kind = "malformed"
    /\ doc.fields.channel = JInt(13)
    /\ apChannel = 7
    /\ calls = << >>

----------------------------------------------------------------------------
\* The step is a tick of loop()
Tick == Idle /\ op' = "loop"

\* C11: a connection attempt takes the 100 ms after the disconnect and at
\* most 20 polls of 1000 ms each; if the link is still down after it, all
\* 20 polls were made and isPrimaryConnected is false; and on both exits
\* lastReconnectAttempt is the time at which the attempt ended.
C11_AttemptBounded ==
    [][ (Idle /\ Made(calls', "begin"))
        => LET ended == IF op' = "loop" THEN now' - 100 ELSE now'
               polled == ended - now - 100
           IN /\ polled \in {n * 1000 : n \in 0..20}
              /\ ~wifiStatus' => (polled = 20 * 1000 /\ ~isPrimaryConnected')
              /\ lastReconnectAttempt' = ended ]_vars

\* A tick at 20200 ms has made an attempt that gave up after 20 polls
C11_Witness ==
    /\ op = "loop" /\ Made(calls, "begin")
    /\ ~wifiStatus /\ ~isPrimaryConnected
    /\ lastReconnectAttempt = 20200 + 100 + 20 * 1000
    /\ now = lastReconnectAttempt + 100

\* C12 as claimed: a tick that finds the link down while isPrimaryConnected
\* is true starts no connection attempt, however long ago the last attempt
\* was.
C12_NoAttemptOnLoss ==
    [][ (Tick /\ isPrimaryConnected /\ ~wifiStatus)
        => ~Made(calls', "begin") ]_vars

\* C12 as amended: a tick that finds the link down while isPrimaryConnected
\* is true starts a connection attempt in that tick exactly when more than
\* 30000 ms have passed since lastReconnectAttempt; when it starts none,
\* isPrimaryConnected stays true.
C12_AttemptOnLossAfterInterval ==
    [][ (Tick /\ isPrimaryConnected /\ ~wifiStatus)
        => /\ Made(calls', "begin") <=> now - lastReconnectAttempt > 30000
           /\ ~Made(calls', "begin") => isPrimaryConnected' ]_vars

\* A tick has found the link lost and has reconnected at once: the station
\* had been connected since setup, 200 ms after boot
C12_Witness ==
    /\ op = "loop" /\ Made(calls, "begin")
    /\ everConnected /\ isPrimaryConnected
    /\ lastReconnectAttempt = 30300 + 100
    /\ now = lastReconnectAttempt + 100

\* C13: when a tick of loop() has turned isPrimaryConnected from false to
\* true while a peer is connected and has pushed no status, the next tick
\* pushes one.
C13_PushAfterConnect ==
    [][ (Tick /\ pushOwed) => Made(calls', "setValue") ]_vars

\* C14: within the horizon of the model, whenever the link is down after
\* setup, a tick eventually starts a connection attempt unless the link
\* comes up before; and whenever the link is up, isPrimaryConnected
\* eventually becomes true unless the link is lost before.
C14_Reconnects ==
    /\ (setupPc = "done" /\ ~wifiStatus
          /\ now <= MaxTime - reconnectInterval - LoopDelay)
         ~> (wifiStatus \/ (op = "loop" /\ Made(calls, "begin")))
    /\ (setupPc = "done" /\ wifiStatus /\ now <= MaxTime)
         ~> (isPrimaryConnected \/ ~wifiStatus)

\* The attempts of setup and of the tick at 20200 ms have failed, and the
\* next tick, at 40400 ms, has connected the station
C14_Witness ==
    /\ op = "loop" /\ Made(calls, "begin")
    /\ isPrimaryConnected /\ wifiStatus
    /\ lastReconnectAttempt = 40400 + 100

\* C15: no configuration write runs while setup() is inside its station
\* connection attempt, and so no second attempt starts and the store does
\* not change during it.
C15_WriteOutsideAttempt ==
    [][ setupPc = "connect"
        => /\ op' # "onWrite"
           /\ Store' = Store
           /\ ~Made(calls', "begin") ]_vars

\* C16: a handler that ends with no peer connected has written nothing to
\* the status characteristic and has notified nothing; a peer that connects
\* is sent one status and no more; and every status sent is built in that
\* step: it reports the store, the link and the uptime as they are then.
C16_FireAndForget ==
    [][ (Idle /\ op' # "none")
        => /\ ~deviceConnected' =>
                (~Made(calls', "setValue") /\ ~Made(calls', "notify"))
           /\ op' = "onConnect" =>
                (Count(calls', "setValue") = 1 /\ Count(calls', "notify") = 1)
           /\ \A i \in DOMAIN calls' :
                calls'[i].f = "setValue" =>
                  /\ PayloadReports(calls'[i].payload, Store')
                  /\ calls'[i].payload.primaryConnected = wifiStatus'
                  /\ calls'[i].payload.uptime
                       \in (now \div 1000)..(now' \div 1000) ]_vars

\* A tick has found the link up after the attempt of setup had failed and
\* has called updateBLEStatus with no peer connected (no status was ever
\* sent); a peer has connected later and has been sent one status, which
\* reports the link as up
C16_Witness ==
    /\ op = "onConnect"
    /\ isPrimaryConnected /\ ~everConnected /\ lastBLEStatusTime = 0
    /\ now > 20200
    /\ Kinds(calls) = <<"setValue", "notify">>
    /\ calls[1].payload.primaryConnected

\* C17: a peer-disconnect callback leaves deviceConnected false and
\* advertising on, and once setupBLE has started advertising, a peer is
\* connected or the device is advertising.
C17_Reachable ==
    /\ op = "onDisconnect" => (~deviceConnected /\ advertising)
    /\ setupPc \notin {"start", "service"} => (deviceConnected \/ advertising)

\* A peer has connected again after an earlier peer, which had been sent a
\* periodic status, had left and a tick had seen no peer
C17_Witness ==
    /\ op = "onConnect" /\ deviceConnected /\ ~advertising
    /\ lastBLEStatusTime > 0 /\ ~oldDeviceConnected

\* C18: once setup has completed, the access point was last started with
\* the store's apSSID, apPassword, apChannel and maxClients, and the
\* power-save mode last commanded is powerSaveMode when powerSavingEnabled
\* is true and NONE when it is false (the listen interval commanded last is
\* then listenInterval); and a write that changes the store restarts the
\* access point and commands the power-save mode.
C18_RadioTracksStore ==
    /\ [](setupPc = "done"
            => /\ wifiAP = [ssid |-> apSSID, pass |-> apPassword,
                            channel |-> apChannel, maxClients |-> maxClients]
               /\ wifiPs = (IF powerSavingEnabled THEN powerSaveMode
                            ELSE WIFI_PS_NONE)
               /\ powerSavingEnabled => wifiListen = listenInterval)
    /\ [][ (WriteStep /\ Store' # Store)
            => Made(calls', "softAP") /\ Made(calls', "esp_wifi_set_ps") ]_vars

\* After setup, a second write has disabled power saving while the stored
\* mode is MAX_MODEM and has moved the channel to 13: the radio was told
\* NONE and the access point runs on channel 13
C18_Witness ==
    /\ WriteDone /\ writes = 2 /\ setupPc = "done"
    /\ ~powerSavingEnabled /\ powerSaveMode = WIFI_PS_MAX_MODEM
    /\ apChannel = 13
    /\ wifiPs = WIFI_PS_NONE /\ wifiAP.channel = 13

\* C19: a write that carries only one key of a credential pair leaves both
\* credentials of the pair unchanged and starts no reconnect for it, and
\* makes no call and no change at all when that key is its only key;
\* credentials change only to the pair that a write carries.
C19_PairsAllOrNothing ==
    [][ (WriteStep /\ doc'.kind = "json")
        => LET d == doc'.fields
               hasS == ContainsKey(d.primarySSID)
               hasP == ContainsKey(d.primaryPass)
               hasAS == ContainsKey(d.apSSID)
               hasAP == ContainsKey(d.apPass)
           IN /\ hasS # hasP
                   => /\ primarySSID' = primarySSID
                      /\ primaryPassword' = primaryPassword
                      /\ ~Made(calls', "disconnect") /\ ~Made(calls', "begin")
              /\ hasAS # hasAP
                   => apSSID' = apSSID /\ apPassword' = apPassword
              /\ (Cardinality(Present(d)) = 1
                    /\ (hasS \/ hasP \/ hasAS \/ hasAP))
                   => Store' = Store /\ calls' = << >>
                      /\ UNCHANGED <<tracking, radio>>
              /\ <<primarySSID', primaryPassword'>>
                     # <<primarySSID, primaryPassword>>
                   => /\ hasS /\ hasP
                      /\ primarySSID' = d.primarySSID.s
                      /\ primaryPassword' = d.primaryPass.s
              /\ <<apSSID', apPassword'>> # <<apSSID, apPassword>>
                   => /\ hasAS /\ hasAP
                      /\ apSSID' = d.apSSID.s
                      /\ apPassword' = d.apPass.s ]_vars

\* A write of primarySSID "Foo" without a password and of channel 13 has
\* run: the channel was applied, the station credentials were not touched
\* and no reconnect was made
C19_Witness ==
    /\ WriteDone
    /\ doc.fields.primarySSID = JStr("Foo")
    /\ ~ContainsKey(doc.fields.primaryPass)
    /\ doc.fields.channel = JInt(13)
    /\ primarySSID = "Shivam5G" /\ apChannel = 13
    /\ Made(calls, "softAP") /\ ~Made(calls, "begin")

\* C20: whenever a peer is connected, and whenever a status has been
\* written, the status characteristic exists.
C20_StatusCharacteristicExists ==
    /\ deviceConnected => pStatusCharacteristic # "NULL"
    /\ (Made(calls, "setValue") \/ Made(calls, "notify"))
         => pStatusCharacteristic # "NULL"

\* A write arriving before setup() has configured WiFi has pushed a status
C20_Witness ==
    /\ op = "onWrite" /\ setupPc = "ble"
    /\ Made(calls, "setValue")
    /\ pStatusCharacteristic = "created"

====
